---- MODULE Spec2Model ----
(***************************************************************************)
(* A model of the NSWG1 Discord bot: the attendance command                *)
(* (src/src/commands/attendance.ts) and the PERSCOM client                 *)
(* (src/src/services/request_perscom.ts).                                  *)
(*                                                                         *)
(* An instant (a JavaScript Date) is a record [d, ms]: d is the number of  *)
(* days since 1970-01-01 UTC and ms the millisecond of that UTC day, so    *)
(* that millisecond resolution is kept without leaving 32-bit integers.    *)
(***************************************************************************)
EXTENDS Integers, Sequences, FiniteSets, TLC

VARIABLES
    TRACKING_START_DATE, \* the constant imported from attendanceService
    year,                \* generateCalendarEmbed: parameter year
    month,               \* generateCalendarEmbed: parameter month (0-indexed)
    attendanceData,      \* generateCalendarEmbed: parameter attendanceData
    calNow,              \* generateCalendarEmbed: what new Date() returns
    calendar,            \* generateCalendarEmbed: the embed it returned
    members,             \* getMemberOptions: parameter members
    page,                \* getMemberOptions: parameter page
    options,             \* getMemberOptions: the options it returned
    walk,                \* the member options met following "Next Page" from page 0
    requestedMonth,      \* execute: interaction.options.getString('month')
    customDate,          \* execute: interaction.options.getString('custom_date')
    today,               \* execute: new Date() at its start
    tz,                  \* the process's zone: local time minus UTC, in ms
    builtAt,             \* new Date() when attendanceCommand.data was built
    monthChoice,         \* which of the month choices was picked (0: none)
    pc,                  \* execute: where the handler stands
    currentYear,         \* execute: currentYear
    currentMonth,        \* execute: currentMonth
    memberList,          \* execute: memberList
    menuPage,            \* handleMemberSelection: page
    reply,               \* the interaction's reply: content and components
    followUps,           \* the embeds posted with interaction.followUp
    fetches,             \* the external fetches started, in order
    waitedMs,            \* time spent in the current awaitMessageComponent
    elapsedMs,           \* time spent waiting since execute started
    waitEnd,             \* how the last awaitMessageComponent ended
    selectedMemberId,    \* execute: selectedMemberId
    attendanceOutcome,   \* how getPlayerAttendance ended
    deferred,            \* interaction.deferred
    psOp,                \* PerscomService: the method that runs
    psPc,                \* PerscomService: where that method stands
    server,              \* what api.perscom.io holds
    users,               \* deleteUsers: parameter users
    userIndex,           \* deleteUsers: the position of `user` in users
    pageNo,              \* getAllForm1Data: page
    lastPage,            \* getAllForm1Data: lastPage
    allForm1Submissions, \* getAllForm1Data: allForm1Submissions
    requests,            \* the HTTP requests sent, in order
    inFlight,            \* the HTTP requests sent and not yet answered
    outcomes,            \* how each answered request ended, in order
    submissions,         \* getSubmissionStatus: parameter submissions
    statusId,            \* getSubmissionStatus: parameter statusId
    submissionIndex,     \* getSubmissionStatus: the position of `submission`
    activeUsers,         \* getSubmissionStatus: activeUsers
    invocations,         \* the invocations of execute waiting in one channel
    events               \* the menu selections Discord has delivered, in order

calVars == <<year, month, attendanceData, calNow, calendar>>

pgVars == <<members, page, options, walk>>

exInputs == <<requestedMonth, customDate, today, tz, builtAt, monthChoice>>

exVars == <<exInputs, pc, currentYear, currentMonth, memberList, menuPage, reply,
            followUps, fetches, waitedMs, elapsedMs, waitEnd, selectedMemberId,
            attendanceOutcome, deferred>>

ssVars == <<submissions, statusId, submissionIndex, activeUsers>>

psVars == <<psOp, psPc, server, users, userIndex, pageNo, lastPage,
            allForm1Submissions, requests, inFlight, outcomes, ssVars>>

ccVars == <<invocations, events>>

vars == <<TRACKING_START_DATE, calVars, pgVars, exVars, psVars, ccVars>>

-----------------------------------------------------------------------------
(* JavaScript Date, UTC fields                                             *)

MsPerDay == 86400000

EndOfDayMs == MsPerDay - 1

Ts(d, ms) == [d |-> d, ms |-> ms]

\* date1.getTime() <= date2.getTime(), and the Date comparison operators
TsLE(a, b) == a.d < b.d \/ (a.d = b.d /\ a.ms <= b.ms)

TsLT(a, b) == a.d < b.d \/ (a.d = b.d /\ a.ms < b.ms)

\* Days since 1970-01-01 of the proleptic Gregorian date y-m-d (m in 1..12)
DaysFromCivil(y, m, d) ==
    LET yy  == IF m <= 2 THEN y - 1 ELSE y
        era == yy \div 400
        yoe == yy - era * 400
        mp  == IF m > 2 THEN m - 3 ELSE m + 9
        doy == (153 * mp + 2) \div 5 + d - 1
        doe == yoe * 365 + yoe \div 4 - yoe \div 100 + doy
    IN  era * 146097 + doe - 719468

\* The Gregorian date [y, m, d] (m in 1..12) of day number z
CivilFromDays(z) ==
    LET zz  == z + 719468
        era == zz \div 146097
        doe == zz - era * 146097
        yoe == (doe - doe \div 1460 + doe \div 36524 - doe \div 146096) \div 365
        doy == doe - (365 * yoe + yoe \div 4 - yoe \div 100)
        mp  == (5 * doy + 2) \div 153
        dd  == doy - (153 * mp + 2) \div 5 + 1
        mm  == IF mp < 10 THEN mp + 3 ELSE mp - 9
    IN  [y |-> yoe + era * 400 + (IF mm <= 2 THEN 1 ELSE 0), m |-> mm, d |-> dd]

\* Date.UTC and new Date(y, m, ...) read a year 0..99 as 1900 + y
MakeFullYear(y) == IF y \in 0..99 THEN 1900 + y ELSE y

\* Date.UTC(y, m, day, ...) with m 0-indexed: a month outside 0..11 carries
\* into the year and a day outside the month carries into the months
DateUTC(y, m, day, ms) ==
    Ts(DaysFromCivil(MakeFullYear(y) + m \div 12, (m % 12) + 1, 1) + day - 1, ms)

getUTCFullYear(t) == CivilFromDays(t.d).y

getUTCMonth(t) == CivilFromDays(t.d).m - 1

getUTCDate(t) == CivilFromDays(t.d).d

getUTCDay_MondayFirst(t) == (t.d + 3) % 7

\* 0 = Sunday .. 6 = Saturday; 1970-01-01 was a Thursday
getUTCDay(t) == (t.d + 4) % 7

-----------------------------------------------------------------------------
(* generateCalendarEmbed                                                   *)

\* attendanceData.filter(record => UTC year and UTC month are the viewed ones)
monthAttendance(data, y, m) ==
    SelectSeq(data, LAMBDA record :
        getUTCFullYear(record) = y /\ getUTCMonth(record) = m)

compareDates_OffByOneDay(date1, date2, y, m) ==
    LET startOfDay == DateUTC(y, m, getUTCDate(date2), 0)
        endOfDay   == DateUTC(y, m, getUTCDate(date2) + 1, EndOfDayMs)
    IN  TsLE(startOfDay, date1) /\ TsLE(date1, endOfDay)

\* the closure compareDates: date1 lies in the UTC day of date2's day-of-month
compareDates(date1, date2, y, m) ==
    LET startOfDay == DateUTC(y, m, getUTCDate(date2), 0)
        endOfDay   == DateUTC(y, m, getUTCDate(date2), EndOfDayMs)
    IN  TsLE(startOfDay, date1) /\ TsLE(date1, endOfDay)

lastDayOf_CommonYear(y, m) == getUTCDate(DateUTC(2023, m + 1, 0, 0))

\* new Date(year, month + 1, 0).getDate(): built and read in the same zone
lastDayOf(y, m) == getUTCDate(DateUTC(y, m + 1, 0, 0))

isCurrentMonth(y, m, now) == y = getUTCFullYear(now) /\ m = getUTCMonth(now)

lastDayToCount(y, m, now) ==
    IF isCurrentMonth(y, m, now) THEN now ELSE DateUTC(y, m + 1, 0, 0)

isRaidDay(dayOfWeek) == dayOfWeek = 3 \/ dayOfWeek = 6

isTrackingEnabled_Strict(date, tsd) == TsLT(tsd, date)

isTrackingEnabled(date, tsd) == TsLE(tsd, date)

BlankCell == [content |-> 0, colour |-> "blank"]

BlankWeek == [i \in 0..6 |-> BlankCell]

\* One pass of the loop body for `day`; st holds totalRaidDays,
\* attendedRaidDays, currentWeek and the rows pushed to the table so far
CalendarDay(st, day, lastDay, records, y, m, now, tsd) ==
    LET date      == DateUTC(y, m, day, 0)
        dayOfWeek == getUTCDay(date)
        counted   == isRaidDay(dayOfWeek) /\ TsLE(date, lastDayToCount(y, m, now))
                        /\ isTrackingEnabled(date, tsd)
        wasPresent == \E i \in 1..Len(records) : compareDates(records[i], date, y, m)
        colour    == IF ~counted THEN "plain"
                     ELSE IF wasPresent THEN "green" ELSE "red"
        week      == [st.currentWeek EXCEPT ![dayOfWeek] =
                        [content |-> day, colour |-> colour]]
        push      == dayOfWeek = 6 \/ day = lastDay
    IN  [totalRaidDays    |-> st.totalRaidDays + (IF counted THEN 1 ELSE 0),
         attendedRaidDays |-> st.attendedRaidDays
                                + (IF counted /\ wasPresent THEN 1 ELSE 0),
         currentWeek      |-> IF push THEN BlankWeek ELSE week,
         rows             |-> IF push THEN Append(st.rows, week) ELSE st.rows]

RECURSIVE CalendarLoop(_, _, _, _, _, _, _, _)
CalendarLoop(st, day, lastDay, records, y, m, now, tsd) ==
    IF day > lastDay THEN st
    ELSE CalendarLoop(CalendarDay(st, day, lastDay, records, y, m, now, tsd),
                      day + 1, lastDay, records, y, m, now, tsd)

attendanceRate_Floor(attended, total) ==
    IF total # 0 THEN (100 * attended) \div total ELSE 0

\* totalRaidDays ? Math.round((attendedRaidDays / totalRaidDays) * 100) : 0
\* Math.round rounds to the nearest integer, a half upwards
attendanceRate(attended, total) ==
    IF total # 0 THEN (200 * attended + total) \div (2 * total) ELSE 0

summaryLine(attended, total) ==
    IF attended = 0 /\ total = 0
    THEN [kind |-> "nodata"]
    ELSE [kind |-> "rate", rate |-> attendanceRate(attended, total),
          attended |-> attended, total |-> total]

generateCalendarEmbed(data, y, m, now, tsd) ==
    LET records == monthAttendance(data, y, m)
        lastDay == lastDayOf(y, m)
        st0     == [totalRaidDays |-> 0, attendedRaidDays |-> 0,
                    currentWeek |-> BlankWeek, rows |-> <<>>]
        st      == CalendarLoop(st0, 1, lastDay, records, y, m, now, tsd)
    IN  [kind             |-> "embed",
         year             |-> y,
         month            |-> m,
         lastDay          |-> lastDay,
         totalRaidDays    |-> st.totalRaidDays,
         attendedRaidDays |-> st.attendedRaidDays,
         rows             |-> st.rows,
         summary          |-> summaryLine(st.attendedRaidDays, st.totalRaidDays)]

NoCalendar == [kind |-> "none"]

-----------------------------------------------------------------------------
(* Strings are sequences of one-character strings                          *)

Digits == <<"0", "1", "2", "3", "4", "5", "6", "7", "8", "9">>

IsDigit(c) == \E i \in 1..10 : Digits[i] = c

DigitVal(c) == (CHOOSE i \in 1..10 : Digits[i] = c) - 1

\* Number.prototype.toString() of a non-negative integer
RECURSIVE toString(_)
toString(n) ==
    IF n < 10 THEN <<Digits[n + 1]>>
    ELSE Append(toString(n \div 10), Digits[(n % 10) + 1])

NaN == [nan |-> TRUE, n |-> 0]

Num(n) == [nan |-> FALSE, n |-> n]

IsWhite(c) == c = " "

RECURSIVE SkipWhite(_)
SkipWhite(str) ==
    IF str # <<>> /\ IsWhite(Head(str)) THEN SkipWhite(Tail(str)) ELSE str

\* The value of the longest prefix of digits of str, from acc
RECURSIVE DigitPrefix(_, _)
DigitPrefix(str, acc) ==
    IF str # <<>> /\ IsDigit(Head(str))
    THEN DigitPrefix(Tail(str), 10 * acc + DigitVal(Head(str)))
    ELSE acc

\* parseInt(str) of a defined string without a 0x prefix: leading white
\* space is skipped, a sign is read, then the digits up to the first other
\* character; NaN when no digit is there
parseInt(str) ==
    LET s1   == SkipWhite(str)
        neg  == s1 # <<>> /\ Head(s1) = "-"
        s2   == IF s1 # <<>> /\ Head(s1) \in {"-", "+"} THEN Tail(s1) ELSE s1
    IN  IF s2 = <<>> \/ ~IsDigit(Head(s2)) THEN NaN
        ELSE Num((IF neg THEN -1 ELSE 1) * DigitPrefix(s2, 0))

\* String.prototype.split(sep): the pieces of str between occurrences of sep
RECURSIVE SplitFrom(_, _, _)
SplitFrom(str, sep, piece) ==
    IF str = <<>> THEN <<piece>>
    ELSE IF Head(str) = sep THEN <<piece>> \o SplitFrom(Tail(str), sep, <<>>)
    ELSE SplitFrom(Tail(str), sep, Append(piece, Head(str)))

split(str, sep) == SplitFrom(str, sep, <<>>)

-----------------------------------------------------------------------------
(* getMemberOptions                                                        *)

ITEMS_PER_PAGE == 24

Str_member_ == <<"m", "e", "m", "b", "e", "r", "_">>

Str_page_ == <<"p", "a", "g", "e", "_">>

\* members.slice(start, end)
slice(list, start, end) ==
    LET lo == IF start < Len(list) THEN start ELSE Len(list)
        hi == IF end < Len(list) THEN end ELSE Len(list)
    IN  [i \in 1..(IF hi > lo THEN hi - lo ELSE 0) |-> list[lo + i]]

hasMore_AtLeast(list, pg) == Len(list) >= pg * ITEMS_PER_PAGE + ITEMS_PER_PAGE

hasMore(list, pg) == Len(list) > pg * ITEMS_PER_PAGE + ITEMS_PER_PAGE

getMemberOptions(list, pg) ==
    LET start == pg * ITEMS_PER_PAGE
        items == slice(list, start, start + ITEMS_PER_PAGE)
        opts  == [i \in 1..Len(items) |->
                    [label |-> items[i].displayName,
                     value |-> Str_member_ \o items[i].id]]
    IN  IF hasMore(list, pg)
        THEN Append(opts, [label |-> "Next Page",
                           value |-> Str_page_ \o toString(pg + 1)])
        ELSE opts

-----------------------------------------------------------------------------
(* attendanceCommand.execute                                               *)

SELECT_TIMEOUT_MS == 60000

\* The step by which the model lets time pass during a wait
TickMs == SELECT_TIMEOUT_MS \div 3

\* The instant delta milliseconds after t
TsAdd(t, delta) ==
    LET total == t.ms + delta
    IN  Ts(t.d + total \div MsPerDay, total % MsPerDay)

\* new Date(y, m): local midnight of the 1st; a year 0..99 means 1900 + y
DateLocal(y, m, zone) ==
    TsAdd(DateUTC(y, m, 1, 0), -zone)

getFullYear(t, zone) == getUTCFullYear(TsAdd(t, zone))

getMonth(t, zone) == getUTCMonth(TsAdd(t, zone))

\* Lines 36-41: the values of the month choices, computed once when the
\* module is loaded: the month index then, and that of 1, 2 and 3 months
\* before
monthChoices(built, zone) ==
    [k \in 1..4 |-> toString((getMonth(built, zone) - (k - 1) + 12) % 12)]

MsgInvalidFormat == "Invalid date format. Please use MM/YYYY format (e.g., 02/2024)"

MsgBeforeTracking == "Cannot view attendance before tracking start date"

MsgFuture == "Cannot view future dates"

MsgServerOnly == "This command can only be used in a server."

MsgUnableToFetch == "Unable to fetch server members."

MsgNoMembers == "No members found in the server (excluding bots)."

MsgSelect == "Select a member to view their attendance:"

MsgTimedOut == "Selection timed out."

MsgNotFound == "Selected member not found."

MsgDisplayed == "Attendance calendar has been displayed."

MsgRetryLater == "There was an error retrieving attendance data."

MsgCommandError == "There was an error executing this command"

Rejected(message) == [ok |-> FALSE, message |-> message, year |-> 0, month |-> 0]

Accepted(y, m) == [ok |-> TRUE, message |-> "", year |-> y, month |-> m]

\* Lines 52-95: the viewed year and month from the options, or the message
\* of the validation that failed
parseOptions(rm, cd, now, zone, tsd) ==
    LET y0 == getFullYear(now, zone)
        m0 == getMonth(now, zone)
    IN  IF cd.present /\ cd.str # <<>>
        THEN LET parts    == split(cd.str, "/")
                 monthStr == parts[1]
                 m        == parseInt(monthStr)
                 y        == IF Len(parts) >= 2 THEN parseInt(parts[2]) ELSE NaN
                 mon      == m.n - 1
             IN  IF m.nan \/ y.nan \/ mon < 0 \/ mon > 11 \/ Len(parts[2]) # 4
                 THEN Rejected(MsgInvalidFormat)
                 ELSE LET customDateObj == DateLocal(y.n, mon, zone)
                      IN  IF TsLT(customDateObj, tsd) THEN Rejected(MsgBeforeTracking)
                          ELSE IF TsLT(now, customDateObj) THEN Rejected(MsgFuture)
                          ELSE Accepted(y.n, mon)
        ELSE IF rm.present
        THEN LET monthIndex == parseInt(rm.str)
             IN  Accepted(IF ~monthIndex.nan /\ monthIndex.n > m0 THEN y0 - 1 ELSE y0,
                          monthIndex.n)
        ELSE Accepted(y0, m0)

MembersFetch == "guild.members.fetch"

AttendanceFetch == "getPlayerAttendance"

\* fetchGuildMembers: the members it returns (or null) and the fetches it
\* started. g is the guild as the call finds it: its member cache, whether
\* it is a community server, how the chunk-based and the regular fetch end,
\* and the cache as the catch block finds it
fetchGuildMembers(g) ==
    IF Len(g.cache) > 0
    THEN [null |-> FALSE, list |-> g.cache, fetched |-> <<>>]
    ELSE IF g.community /\ g.chunk.ok
    THEN [null |-> FALSE, list |-> g.chunk.list, fetched |-> <<MembersFetch>>]
    ELSE LET fetched == (IF g.community THEN <<MembersFetch>> ELSE <<>>) \o <<MembersFetch>>
         IN  IF g.regular.ok
             THEN [null |-> FALSE, list |-> g.regular.list, fetched |-> fetched]
             ELSE IF Len(g.cacheAfter) > 0
             THEN [null |-> FALSE, list |-> g.cacheAfter, fetched |-> fetched]
             ELSE [null |-> TRUE, list |-> <<>>, fetched |-> fetched]

\* members.filter(m => !m.user.bot).map(m => ({id, displayName}))
humansOf(list) ==
    LET kept == SelectSeq(list, LAMBDA m : ~m.bot)
    IN  [i \in 1..Len(kept) |-> [id |-> kept[i].id, displayName |-> kept[i].displayName]]

\* The catch block of lines 214-220
attendanceCatch_KeepsMenu(rep) == [rep EXCEPT !.content = MsgRetryLater]

attendanceCatch(rep) == [content |-> MsgRetryLater, components |-> <<>>]

\* Ending execute with a last editReply
Finish(content, components) ==
    /\ reply' = [content |-> content, components |-> components]
    /\ pc' = "done"

\* await interaction.deferReply({ ephemeral: true }) succeeds
DeferReplyOk ==
    /\ pc = "deferReply"
    /\ pc' = "options"
    /\ deferred' = TRUE
    /\ UNCHANGED <<TRACKING_START_DATE, calVars, pgVars, psVars, ccVars, exInputs, currentYear,
                   currentMonth, memberList, menuPage, reply, followUps, fetches,
                   waitedMs, elapsedMs, waitEnd, selectedMemberId,
                   attendanceOutcome>>

\* deferReply throws: the outer catch (lines 222-236) finds the interaction
\* neither replied nor deferred, replies, and swallows a failure of that reply
DeferReplyFails ==
    /\ pc = "deferReply"
    /\ \E delivered \in BOOLEAN :
          Finish(IF delivered THEN MsgCommandError ELSE reply.content, <<>>)
    /\ UNCHANGED <<TRACKING_START_DATE, calVars, pgVars, psVars, ccVars, exInputs, currentYear,
                   currentMonth, memberList, menuPage, followUps, fetches,
                   waitedMs, elapsedMs, waitEnd, selectedMemberId,
                   attendanceOutcome, deferred>>

\* Lines 52-102: the options are read and validated, then the guild checked
ReadOptions ==
    /\ pc = "options"
    /\ LET r == parseOptions(requestedMonth, customDate, today, tz,
                             TRACKING_START_DATE)
       IN  IF ~r.ok
           THEN /\ Finish(r.message, <<>>)
                /\ UNCHANGED <<currentYear, currentMonth>>
           ELSE /\ currentYear' = r.year
                /\ currentMonth' = r.month
                /\ \E inGuild \in BOOLEAN :
                      IF inGuild
                      THEN pc' = "fetchMembers" /\ UNCHANGED reply
                      ELSE Finish(MsgServerOnly, <<>>)
    /\ UNCHANGED <<TRACKING_START_DATE, calVars, pgVars, psVars, ccVars, exInputs, memberList,
                   menuPage, followUps, fetches, waitedMs, elapsedMs, waitEnd,
                   selectedMemberId, attendanceOutcome, deferred>>

BigGuildSize == 27

RawMember(k, bot) ==
    [id |-> toString(1000 + k), displayName |-> <<"u">> \o toString(k), bot |-> bot]

SmallGuild == <<RawMember(1, FALSE), RawMember(2, TRUE), RawMember(3, FALSE)>>

BotsOnly == <<RawMember(2, TRUE)>>

\* More humans than one page holds, and a bot among them
BigGuild == [i \in 1..BigGuildSize |-> RawMember(i, i = 5)]

FetchOutcomes ==
    {[ok |-> FALSE, list |-> <<>>], [ok |-> TRUE, list |-> <<>>],
     [ok |-> TRUE, list |-> SmallGuild]}

\* The guilds a call of fetchGuildMembers may find
Guilds ==
    {[cache |-> c, community |-> FALSE, chunk |-> [ok |-> FALSE, list |-> <<>>],
      regular |-> [ok |-> FALSE, list |-> <<>>], cacheAfter |-> c] :
        c \in {SmallGuild, BotsOnly, BigGuild}}
    \cup
    [cache : {<<>>}, community : BOOLEAN, chunk : FetchOutcomes,
     regular : FetchOutcomes, cacheAfter : {<<>>, SmallGuild}]

\* Lines 104-128: the members are fetched and the bots dropped
FetchMembers ==
    /\ pc = "fetchMembers"
    /\ \E g \in Guilds :
          LET got == fetchGuildMembers(g)
          IN  /\ fetches' = fetches \o got.fetched
              /\ IF got.null \/ Len(got.list) = 0
                 THEN Finish(MsgUnableToFetch, <<>>) /\ UNCHANGED memberList
                 ELSE /\ memberList' = humansOf(got.list)
                      /\ IF Len(memberList') = 0
                         THEN Finish(MsgNoMembers, <<>>)
                         ELSE pc' = "showMenu" /\ UNCHANGED reply
    /\ UNCHANGED <<TRACKING_START_DATE, calVars, pgVars, psVars, ccVars, exInputs, currentYear,
                   currentMonth, menuPage, followUps, waitedMs, elapsedMs,
                   waitEnd, selectedMemberId, attendanceOutcome, deferred>>

\* Lines 131-152: the menu of the page is shown and the wait for a choice
\* starts; without a channel there is nothing to wait on, handleMemberSelection
\* returns null and execute ends as lines 173-179 end it
ShowMenu ==
    /\ pc = "showMenu"
    /\ \E hasChannel \in BOOLEAN :
          IF hasChannel
          THEN /\ reply' = [content |-> MsgSelect,
                            components |-> getMemberOptions(memberList, menuPage)]
               /\ pc' = "waiting"
               /\ waitedMs' = 0
               /\ UNCHANGED waitEnd
          ELSE /\ Finish(MsgTimedOut, <<>>)
               /\ waitEnd' = "nochannel"
               /\ UNCHANGED waitedMs
    /\ UNCHANGED <<TRACKING_START_DATE, calVars, pgVars, psVars, ccVars, exInputs, currentYear,
                   currentMonth, memberList, menuPage, followUps, fetches,
                   elapsedMs, selectedMemberId, attendanceOutcome, deferred>>

\* Time passes while awaitMessageComponent waits
Tick ==
    /\ pc = "waiting"
    /\ waitedMs < SELECT_TIMEOUT_MS
    /\ waitedMs' = waitedMs + TickMs
    /\ elapsedMs' = elapsedMs + TickMs
    /\ UNCHANGED <<TRACKING_START_DATE, calVars, pgVars, psVars, ccVars, exInputs, pc, currentYear,
                   currentMonth, memberList, menuPage, reply, followUps, fetches,
                   waitEnd, selectedMemberId, attendanceOutcome, deferred>>

\* The options of the shown menu the model lets the user pick
Pickable == {1, Len(reply.components) - 1, Len(reply.components)}
                \cap (1..Len(reply.components))

\* Lines 152-162 and 171-197: a choice arrives before the timeout; "Next
\* Page" shows that page, a member starts the attendance fetch
Select(i) ==
    /\ pc = "waiting"
    /\ waitedMs < SELECT_TIMEOUT_MS
    /\ LET parts == split(reply.components[i].value, "_")
           type  == parts[1]
           value == parts[2]
       IN  IF type = <<"p", "a", "g", "e">>
           THEN /\ menuPage' = parseInt(value).n
                /\ pc' = "showMenu"
                /\ UNCHANGED <<reply, selectedMemberId, fetches, waitEnd>>
           ELSE /\ selectedMemberId' = value
                /\ waitEnd' = "selection"
                /\ UNCHANGED menuPage
                /\ IF \E k \in 1..Len(memberList) : memberList[k].id = value
                   THEN /\ pc' = "fetchAttendance"
                        /\ fetches' = Append(fetches, AttendanceFetch)
                        /\ UNCHANGED reply
                   ELSE Finish(MsgNotFound, <<>>) /\ UNCHANGED fetches
    /\ UNCHANGED <<TRACKING_START_DATE, calVars, pgVars, psVars, ccVars, exInputs, currentYear,
                   currentMonth, memberList, followUps, waitedMs, elapsedMs,
                   attendanceOutcome, deferred>>

\* handleMemberSelection returned null: lines 173-179
selectionIsNull(ended) ==
    /\ waitEnd' = ended
    /\ Finish(MsgTimedOut, <<>>)
    /\ UNCHANGED <<TRACKING_START_DATE, calVars, pgVars, psVars, ccVars, exInputs, currentYear,
                   currentMonth, memberList, menuPage, followUps, fetches,
                   waitedMs, elapsedMs, selectedMemberId, attendanceOutcome, deferred>>

\* The 60 s pass: awaitMessageComponent rejects, the catch returns null
Timeout ==
    /\ pc = "waiting"
    /\ waitedMs >= SELECT_TIMEOUT_MS
    /\ selectionIsNull("time")

\* The collector ends for another reason (the channel, the message or the
\* guild is deleted): awaitMessageComponent rejects, the catch returns null
WaitFails ==
    /\ pc = "waiting"
    /\ selectionIsNull("error")

\* The attendance records the model lets getPlayerAttendance return
AttendanceLists ==
    {<<>>, <<DateUTC(currentYear, currentMonth, 10, 0)>>}

\* Lines 197-212: the records arrive, the calendar is posted
AttendanceArrives ==
    /\ pc = "fetchAttendance"
    /\ \E data \in AttendanceLists :
          followUps' = <<generateCalendarEmbed(data, currentYear, currentMonth,
                                               TsAdd(today, elapsedMs),
                                               TRACKING_START_DATE)>>
    /\ attendanceOutcome' = "ok"
    /\ Finish(MsgDisplayed, <<>>)
    /\ UNCHANGED <<TRACKING_START_DATE, calVars, pgVars, psVars, ccVars, exInputs, currentYear,
                   currentMonth, memberList, menuPage, fetches, waitedMs,
                   elapsedMs, waitEnd, selectedMemberId, deferred>>

\* Lines 197 and 214-220: getPlayerAttendance throws
AttendanceFails ==
    /\ pc = "fetchAttendance"
    /\ attendanceOutcome' = "failed"
    /\ reply' = attendanceCatch(reply)
    /\ pc' = "done"
    /\ UNCHANGED <<TRACKING_START_DATE, calVars, pgVars, psVars, ccVars, exInputs, currentYear,
                   currentMonth, memberList, menuPage, followUps, fetches,
                   waitedMs, elapsedMs, waitEnd, selectedMemberId, deferred>>

-----------------------------------------------------------------------------
(* PerscomService                                                          *)

\* let page = 4
FIRST_PAGE == 4

\* let lastPage = 1
INITIAL_LAST_PAGE == 1

\* The submissions page p of the server holds: two per page, their form_id
\* set by the server's pattern
SubmissionsOn(srv, p) ==
    <<[id |-> 10 * p + 1, form_id |-> 1 + ((p + srv.pattern) % 2), user_id |-> 100 + p],
      [id |-> 10 * p + 2, form_id |-> 1 + (srv.pattern \div 2), user_id |-> 200 + p]>>

\* data.data.filter(form_id === 1).map(...): form_id of the result is the
\* submission's id
form1Submissions(data) ==
    LET kept == SelectSeq(data, LAMBDA submission : submission.form_id = 1)
    IN  [i \in 1..Len(kept) |-> [form_id |-> kept[i].id, user_id |-> kept[i].user_id]]

\* page <= lastPage; a last_page that is no number compares false
loopContinues(p, last) == ~last.nan /\ p <= last.n

nextPage_Same(p) == p

\* page++
nextPage(p) == p + 1

MetaRequest == [method |-> "GET", path |-> "submissions", arg |-> 0]

PageRequest(p) == [method |-> "GET", path |-> "submissions?page", arg |-> p]

DeleteRequest(user) == [method |-> "DELETE", path |-> "users", arg |-> user.user_id]

CacheRequest == [method |-> "POST", path |-> "cache", arg |-> 0]

\* Sending a request and suspending at its await
Send(request, at) ==
    /\ requests' = Append(requests, request)
    /\ inFlight' = inFlight + 1
    /\ psPc' = at

\* The response to the awaited request arrives
Answered(outcome) ==
    /\ inFlight' = inFlight - 1
    /\ outcomes' = Append(outcomes, outcome)

\* Lines 154-156 and 188: the loop test, run when the awaited response has
\* been handled: the request for page p takes its place in flight, or the
\* method returns with nothing in flight
ContinueForm1(p, last) ==
    IF loopContinues(p, last)
    THEN /\ requests' = Append(requests, PageRequest(p))
         /\ inFlight' = inFlight
         /\ psPc' = "pageWait"
    ELSE /\ UNCHANGED requests
         /\ inFlight' = inFlight - 1
         /\ psPc' = "done"

\* Lines 129-140: getAllForm1Data starts and requests the metadata
Form1Start ==
    /\ psOp = "getAllForm1Data" /\ psPc = "start"
    /\ pageNo' = FIRST_PAGE
    /\ lastPage' = Num(INITIAL_LAST_PAGE)
    /\ allForm1Submissions' = <<>>
    /\ Send(MetaRequest, "metaWait")
    /\ UNCHANGED <<TRACKING_START_DATE, calVars, pgVars, exVars, ccVars, ssVars, psOp, server,
                   users, userIndex, outcomes>>

\* Lines 142-156: the metadata response; a failure returns [], a success
\* sets lastPage and enters the loop
Form1Meta(outcome) ==
    /\ psOp = "getAllForm1Data" /\ psPc = "metaWait"
    /\ outcomes' = Append(outcomes, outcome)
    /\ IF outcome = "ok"
       THEN /\ lastPage' = server.last_page
            /\ ContinueForm1(pageNo, lastPage')
       ELSE /\ psPc' = "done"
            /\ inFlight' = inFlight - 1
            /\ UNCHANGED <<lastPage, requests>>
    /\ UNCHANGED <<TRACKING_START_DATE, calVars, pgVars, exVars, ccVars, ssVars, psOp, server,
                   users, userIndex, pageNo, allForm1Submissions>>

\* Lines 164-187: the response to a page request; a failure leaves the
\* loop, a success appends the page's form 1 submissions and moves on
Form1Page(outcome) ==
    /\ psOp = "getAllForm1Data" /\ psPc = "pageWait"
    /\ outcomes' = Append(outcomes, outcome)
    /\ IF outcome = "ok"
       THEN /\ allForm1Submissions' = allForm1Submissions
                    \o form1Submissions(SubmissionsOn(server, pageNo))
            /\ pageNo' = nextPage(pageNo)
            /\ ContinueForm1(pageNo', lastPage)
       ELSE /\ psPc' = "done"
            /\ inFlight' = inFlight - 1
            /\ UNCHANGED <<allForm1Submissions, pageNo, requests>>
    /\ UNCHANGED <<TRACKING_START_DATE, calVars, pgVars, exVars, ccVars, ssVars, psOp, server,
                   users, userIndex, lastPage>>

nextUser_BreakOnNotOk(i, outcome) ==
    IF outcome = "notOk" THEN Len(users) + 1 ELSE i + 1

\* The for-of loop after the body ran for users[i]: `continue` and the end
\* of the try and of the catch all lead to the next user
nextUser(i, outcome) == i + 1

\* Lines 208-218 and 230: the loop test, then the DELETE for users[i] or
\* the return
ContinueDelete(i) ==
    /\ userIndex' = i
    /\ IF i <= Len(users)
       THEN /\ requests' = Append(requests, DeleteRequest(users[i]))
            /\ psPc' = "deleteWait"
       ELSE /\ UNCHANGED requests
            /\ psPc' = "done"

DeleteStart ==
    /\ psOp = "deleteUsers" /\ psPc = "start"
    /\ ContinueDelete(1)
    /\ inFlight' = IF Len(users) >= 1 THEN inFlight + 1 ELSE inFlight
    /\ UNCHANGED <<TRACKING_START_DATE, calVars, pgVars, exVars, ccVars, ssVars, psOp, server,
                   users, pageNo, lastPage, allForm1Submissions, outcomes>>

\* Lines 218-229: the response to the DELETE of users[userIndex]
DeleteAnswered(outcome) ==
    /\ psOp = "deleteUsers" /\ psPc = "deleteWait"
    /\ outcomes' = Append(outcomes, outcome)
    /\ ContinueDelete(nextUser(userIndex, outcome))
    /\ inFlight' = IF userIndex' <= Len(users) THEN inFlight ELSE inFlight - 1
    /\ UNCHANGED <<TRACKING_START_DATE, calVars, pgVars, exVars, ccVars, ssVars, psOp, server,
                   users, pageNo, lastPage, allForm1Submissions>>

\* Lines 192-197: clearCache posts to the cache endpoint
CacheStart ==
    /\ psOp = "clearCache" /\ psPc = "start"
    /\ Send(CacheRequest, "cacheWait")
    /\ UNCHANGED <<TRACKING_START_DATE, calVars, pgVars, exVars, ccVars, ssVars, psOp, server,
                   users, userIndex, pageNo, lastPage, allForm1Submissions,
                   outcomes>>

\* Lines 199-204: status 200, another status axios accepts (a warning), or
\* a rejection (caught and logged)
CacheAnswered(outcome) ==
    /\ psOp = "clearCache" /\ psPc = "cacheWait"
    /\ Answered(outcome)
    /\ psPc' = "done"
    /\ UNCHANGED <<TRACKING_START_DATE, calVars, pgVars, exVars, ccVars, ssVars, psOp, server,
                   users, userIndex, pageNo, lastPage, allForm1Submissions,
                   requests>>

\* GET submissions/${formId}/statuses
StatusRequest(submission) ==
    [method |-> "GET", path |-> "submissions/statuses", arg |-> submission.form_id]

\* response.data.data of an answered status request: no list, an empty
\* list, a list without the status asked for, a list with it
StatusData(outcome, sid) ==
    CASE outcome = "empty" -> <<>>
      [] outcome = "other" -> <<sid + 1>>
      [] outcome = "match" -> <<sid + 1, sid>>
      [] OTHER -> <<>>

\* !statusData || statusData.length === 0
noStatusData(outcome, sid) ==
    outcome = "noData" \/ Len(StatusData(outcome, sid)) = 0

\* statusData.find(status => status.id === statusId)
matchedStatus(statusData, sid) ==
    \E k \in 1..Len(statusData) : statusData[k] = sid

\* The request rejects (axios rejects on a status outside 2xx too), or the
\* body has no data member and response.data.data throws
statusFails(outcome) == outcome \in {"throws", "badBody"}

\* The for-of loop after the body ran for submissions[i]: `continue`, the
\* end of the try and the end of the catch all lead to the next submission
nextSubmission(i, outcome) == i + 1

\* Lines 94-104 and 125: the loop test, then the status request for
\* submissions[i] or the return
ContinueStatus(i) ==
    /\ submissionIndex' = i
    /\ IF i <= Len(submissions)
       THEN /\ requests' = Append(requests, StatusRequest(submissions[i]))
            /\ psPc' = "statusWait"
       ELSE /\ UNCHANGED requests
            /\ psPc' = "done"

\* Lines 88-104: getSubmissionStatus starts
StatusStart ==
    /\ psOp = "getSubmissionStatus" /\ psPc = "start"
    /\ activeUsers' = <<>>
    /\ ContinueStatus(1)
    /\ inFlight' = IF Len(submissions) >= 1 THEN inFlight + 1 ELSE inFlight
    /\ UNCHANGED <<TRACKING_START_DATE, calVars, pgVars, exVars, ccVars, psOp, server,
                   users, userIndex, pageNo, lastPage, allForm1Submissions,
                   outcomes, submissions, statusId>>

\* Lines 105-123: the answer to the status request of
\* submissions[submissionIndex]
StatusAnswered(outcome) ==
    /\ psOp = "getSubmissionStatus" /\ psPc = "statusWait"
    /\ outcomes' = Append(outcomes, outcome)
    /\ activeUsers' =
          IF /\ ~statusFails(outcome)
             /\ ~noStatusData(outcome, statusId)
             /\ matchedStatus(StatusData(outcome, statusId), statusId)
          THEN Append(activeUsers, submissions[submissionIndex])
          ELSE activeUsers
    /\ ContinueStatus(nextSubmission(submissionIndex, outcome))
    /\ inFlight' = IF submissionIndex' <= Len(submissions)
                   THEN inFlight ELSE inFlight - 1
    /\ UNCHANGED <<TRACKING_START_DATE, calVars, pgVars, exVars, ccVars, psOp, server,
                   users, userIndex, pageNo, lastPage, allForm1Submissions,
                   submissions, statusId>>

-----------------------------------------------------------------------------
(* The calendar renderer on its own: Init draws its inputs, Render applies *)
(* it.                                                                     *)

\* The other components at rest
PgIdle == members = <<>> /\ page = 0 /\ options = <<>> /\ walk = <<>>

CalIdle ==
    /\ year = 2024 /\ month = 0 /\ attendanceData = <<>>
    /\ calNow = DateUTC(2024, 0, 1, 0) /\ calendar = NoCalendar

None == [present |-> FALSE, str |-> <<>>]

Some(str) == [present |-> TRUE, str |-> str]

NoReply == [content |-> "", components |-> <<>>]

ExIdle ==
    /\ requestedMonth = None /\ customDate = None
    /\ today = DateUTC(2024, 0, 1, 0) /\ tz = 0
    /\ builtAt = DateUTC(2024, 0, 1, 0) /\ monthChoice = 0
    /\ pc = "idle" /\ currentYear = 0 /\ currentMonth = 0
    /\ memberList = <<>> /\ menuPage = 0 /\ reply = NoReply
    /\ followUps = <<>> /\ fetches = <<>> /\ waitedMs = 0 /\ elapsedMs = 0
    /\ waitEnd = "none" /\ selectedMemberId = <<>>
    /\ attendanceOutcome = "none" /\ deferred = FALSE

CcIdle == invocations = <<>> /\ events = <<>>

PsIdle ==
    /\ psOp = "none" /\ psPc = "idle" /\ server = [last_page |-> Num(0), pattern |-> 0]
    /\ users = <<>> /\ userIndex = 1 /\ pageNo = 0 /\ lastPage = Num(0)
    /\ allForm1Submissions = <<>> /\ requests = <<>> /\ inFlight = 0
    /\ outcomes = <<>>
    /\ submissions = <<>> /\ statusId = 0 /\ submissionIndex = 1
    /\ activeUsers = <<>>

MaxRecords == 2

Years == {2024, 2025}

\* Candidate values of TRACKING_START_DATE: the start of a year, the start
\* of a Wednesday and the middle of a Saturday
TrackingStarts ==
    {DateUTC(2024, 0, 1, 0), DateUTC(2024, 1, 7, 0), DateUTC(2024, 1, 10, 43200000)}

\* Values of new Date(): inside the viewed month (the start of the 10th or
\* the middle of the 20th) or well after every viewed month
NowsFor(y, m) ==
    {DateUTC(y, m, 10, 0), DateUTC(y, m, 20, 43200000),
     DateUTC(2026, 0, 15, 36000000)}

\* Attendance records: the first and the last millisecond of the 10th and
\* 20th of the viewed month, and the 10th of the next month and of the
\* same month a year earlier
RecordsFor(y, m) ==
    {DateUTC(y, m, day, ms) : day \in {10, 20}, ms \in {0, EndOfDayMs}}
        \cup {DateUTC(y, m + 1, 10, 0), DateUTC(y - 1, m, 10, EndOfDayMs)}

SeqsUpTo(S, n) == UNION {[1..k -> S] : k \in 0..n}

CalInit ==
    /\ TRACKING_START_DATE \in TrackingStarts
    /\ year \in Years
    /\ month \in 0..11
    /\ calNow \in NowsFor(year, month)
    /\ attendanceData \in SeqsUpTo(RecordsFor(year, month), MaxRecords)
    /\ calendar = NoCalendar
    /\ PgIdle /\ ExIdle /\ PsIdle /\ CcIdle

Render ==
    /\ calendar = NoCalendar
    /\ calendar' = generateCalendarEmbed(attendanceData, year, month, calNow,
                                         TRACKING_START_DATE)
    /\ UNCHANGED <<TRACKING_START_DATE, year, month, attendanceData, calNow>>
    /\ UNCHANGED <<pgVars, exVars, psVars, ccVars>>

CalNext == Render

SpecCalendar == CalInit /\ [][CalNext]_vars

-----------------------------------------------------------------------------
(* Properties of generateCalendarEmbed                                     *)

Rendered == calendar.kind = "embed"

\* The UTC midnight that starts day `day` of the viewed month
DayStart(day) == Ts(DaysFromCivil(year, month + 1, day), 0)

\* The days of the viewed month whose cell is drawn in one of `colours`
DaysDrawn(colours) ==
    {calendar.rows[r][c].content : r \in 1..Len(calendar.rows), c \in 0..6}
        \cap {day \in 1..31 :
                \E r \in 1..Len(calendar.rows), c \in 0..6 :
                    /\ calendar.rows[r][c].content = day
                    /\ calendar.rows[r][c].colour \in colours}

ViewingCurrentMonth ==
    CivilFromDays(calNow.d).y = year /\ CivilFromDays(calNow.d).m = month + 1

Cutoff == IF ViewingCurrentMonth THEN calNow ELSE DayStart(calendar.lastDay)

IsWedOrSat(day) == getUTCDay(DayStart(day)) \in {3, 6}

\* What the claim says a counted day is
ShouldCount(day) ==
    /\ IsWedOrSat(day)
    /\ TsLE(TRACKING_START_DATE, DayStart(day))
    /\ TsLE(DayStart(day), Cutoff)

HasRecordOn(day) ==
    \E i \in 1..Len(attendanceData) : attendanceData[i].d = DayStart(day).d

\* C1: a day of the viewed month is counted in totalRaidDays if and only if
\* it is a Wednesday or a Saturday (UTC), not before TRACKING_START_DATE and
\* not after the cutoff (now in the current month, else the month's last
\* day); no other day adds to totalRaidDays or to attendedRaidDays,
\* whatever records exist for it.
C1_CountedIffRaidTrackedNotAfterCutoff ==
    Rendered =>
        LET expected == {day \in 1..calendar.lastDay : ShouldCount(day)}
        IN  /\ DaysDrawn({"green", "red"}) = expected
            /\ calendar.totalRaidDays = Cardinality(expected)
            /\ DaysDrawn({"green"}) \subseteq expected
            /\ calendar.attendedRaidDays = Cardinality(DaysDrawn({"green"}))

\* A rendered current month in which some raid days are counted, a raid day
\* before tracking start has a record, and a raid day lies after now
C1_Witness ==
    /\ Rendered
    /\ ViewingCurrentMonth
    /\ calendar.totalRaidDays > 0
    /\ \E day \in 1..calendar.lastDay :
          /\ IsWedOrSat(day) /\ HasRecordOn(day)
          /\ ~TsLE(TRACKING_START_DATE, DayStart(day))
          /\ day \notin DaysDrawn({"green", "red"})
    /\ \E day \in 1..calendar.lastDay :
          /\ IsWedOrSat(day) /\ TsLT(calNow, DayStart(day))
          /\ day \notin DaysDrawn({"green", "red"})

\* C2: attendedRaidDays is the number of counted raid days of the viewed
\* month on whose UTC day at least one record lies; several records on one
\* day add 1, and a record of another year or month adds nothing.
C2_AttendedIsDaysWithARecord ==
    Rendered =>
        LET attended == {day \in 1..calendar.lastDay :
                            ShouldCount(day) /\ HasRecordOn(day)}
        IN  /\ calendar.attendedRaidDays = Cardinality(attended)
            /\ DaysDrawn({"green"}) = attended

\* Two records on the same counted raid day, one at its first and one at
\* its last millisecond: attended is 1
C2_Witness ==
    /\ Rendered
    /\ Len(attendanceData) = 2
    /\ attendanceData[1].d = attendanceData[2].d
    /\ attendanceData[1].ms = 0 /\ attendanceData[2].ms = EndOfDayMs
    /\ calendar.attendedRaidDays = 1
    /\ calendar.totalRaidDays > 1

\* C3: the summary is the rate round(attended / total * 100), an integer in
\* 0..100 (33 for 1 of 3), whenever a raid day was counted, and is the
\* no-data message exactly when none was.
C3_RateRoundedOrNoData ==
    Rendered =>
        LET a == calendar.attendedRaidDays
            t == calendar.totalRaidDays
            s == calendar.summary
        IN  /\ (s.kind = "nodata") <=> (t = 0)
            /\ t > 0 =>
                  /\ s.kind = "rate"
                  /\ s.rate \in 0..100
                  /\ 2 * (s.rate * t - 100 * a) <= t
                  /\ 2 * (s.rate * t - 100 * a) > -t
                  /\ (a = 1 /\ t = 3) => s.rate = 33

\* One raid day attended of three counted: the line reads 33%
C3_Witness ==
    /\ Rendered
    /\ calendar.attendedRaidDays = 1
    /\ calendar.totalRaidDays = 3
    /\ calendar.summary.kind = "rate"
    /\ calendar.summary.rate = 33

-----------------------------------------------------------------------------
(* The member menu on its own: any page may be shown, and the "Next Page"  *)
(* option may be followed as handleMemberSelection follows it.             *)

MaxMembers == 50

MaxPageIndex == 3

IdBase == 1000

Member(k) == [id |-> toString(IdBase + k), displayName |-> <<"u">> \o toString(k)]

\* Member lists of every length up to MaxMembers, in two orders
MemberLists ==
    {[i \in 1..n |-> Member(i)] : n \in 0..MaxMembers}
        \cup {[i \in 1..n |-> Member(n + 1 - i)] : n \in 0..MaxMembers}

IsPageOption(opt) == split(opt.value, "_")[1] = <<"p", "a", "g", "e">>

MemberOptionsOf(opts) == SelectSeq(opts, LAMBDA opt : ~IsPageOption(opt))

PgInit ==
    /\ members \in MemberLists
    /\ page = 0
    /\ options = getMemberOptions(members, 0)
    /\ walk = [onChain |-> TRUE, seen |-> MemberOptionsOf(options)]
    /\ TRACKING_START_DATE = DateUTC(2024, 0, 1, 0)
    /\ CalIdle /\ ExIdle /\ PsIdle /\ CcIdle

\* getMemberOptions(memberList, p) for any page index p
ShowPage(p) ==
    /\ page' = p
    /\ options' = getMemberOptions(members, p)
    /\ walk' = IF p = 0
               THEN [onChain |-> TRUE, seen |-> MemberOptionsOf(options')]
               ELSE [onChain |-> FALSE, seen |-> <<>>]
    /\ UNCHANGED <<members, TRACKING_START_DATE, calVars, exVars, psVars, ccVars>>

\* The user picks the "Next Page" option: its value is split at "_" and the
\* page number parsed, and that page is shown
FollowNextPage ==
    /\ options # <<>>
    /\ LET picked == options[Len(options)].value
           type   == split(picked, "_")[1]
           value  == split(picked, "_")[2]
       IN  /\ type = <<"p", "a", "g", "e">>
           /\ page' = parseInt(value).n
           /\ options' = getMemberOptions(members, page')
           /\ walk' = [walk EXCEPT !.seen = IF walk.onChain
                                             THEN @ \o MemberOptionsOf(options')
                                             ELSE @]
    /\ UNCHANGED <<members, TRACKING_START_DATE, calVars, exVars, psVars, ccVars>>

PgNext == (\E p \in 0..MaxPageIndex : ShowPage(p)) \/ FollowNextPage

SpecPages == PgInit /\ [][PgNext]_vars

MemberValue(i) == Str_member_ \o members[i].id

\* C6: page p holds the members at positions 24p .. 24p+23 in list order,
\* followed by exactly one "Next Page" option with value page_(p+1) if and
\* only if members remain after position 24p+23; a page has at most 25
\* options, and following "Next Page" from page 0 meets every member once.
C6_PagesOf24WithSentinel ==
    LET n     == Len(members)
        first == 24 * page
        k     == IF n - first >= 24 THEN 24 ELSE IF n > first THEN n - first ELSE 0
        more  == n > first + 24
        all   == [i \in 1..n |-> [label |-> members[i].displayName,
                                  value |-> MemberValue(i)]]
    IN  /\ Len(options) = k + (IF more THEN 1 ELSE 0)
        /\ Len(options) <= 25
        /\ \A j \in 1..k :
              /\ options[j].value = MemberValue(first + j)
              /\ options[j].label = members[first + j].displayName
        /\ more => /\ options[k + 1].label = "Next Page"
                   /\ options[k + 1].value = Str_page_ \o toString(page + 1)
        /\ walk.onChain =>
              /\ Len(walk.seen) <= n
              /\ walk.seen = SubSeq(all, 1, Len(walk.seen))
              /\ ~more => walk.seen = all

\* The second page of a 50-member list, reached from page 0: 24 members
\* and the option leading to page 2
C6_Witness ==
    /\ Len(members) = 50
    /\ page = 1
    /\ walk.onChain
    /\ Len(options) = 25
    /\ options[25].value = Str_page_ \o <<"2">>
    /\ options[1].value = MemberValue(25)

-----------------------------------------------------------------------------
(* One invocation of the attendance command                                *)

\* custom_date strings: well-formed ones in and out of range, a month of 13
\* and of 00, stray characters, a third part, a short year,
\* no slash, no digits, a year below 100
CustomDates ==
    {<<"0", "2", "/", "2", "0", "2", "4">>,
     <<"0", "3", "/", "2", "0", "2", "4">>,
     <<"1", "2", "/", "2", "0", "2", "4">>,
     <<"0", "1", "/", "2", "0", "2", "5">>,
     <<"1", "3", "/", "2", "0", "2", "4">>,
     <<"0", "0", "/", "2", "0", "2", "4">>,
     <<"2", "a", "/", "2", "0", "2", "4">>,
     <<"0", "2", "/", "2", "0", "2", "4", "/", "9">>,
     <<"0", "2", "/", "2", "4">>,
     <<"0", "2", "2", "4">>,
     <<"a", "b", "/", "2", "0", "2", "4">>,
     <<"0", "2", "/", "2", "0", "2", "3">>,
     <<"1", "2", "/", "2", "0", "3", "0">>,
     <<"0", "2", "/", "0", "0", "2", "4">>}

\* month values: the indices 0..11 the choices can hold, and 13
MonthValues == {<<"0">>, <<"1">>, <<"2">>, <<"3">>, <<"4">>, <<"5">>, <<"6">>, <<"7">>, <<"8">>, <<"9">>, <<"1", "0">>, <<"1", "1">>, <<"1", "3">>}

\* The options of an invocation: a custom date, a month, neither, or both
OptionPairs ==
    {<<None, Some(cd)>> : cd \in CustomDates}
        \cup {<<Some(mv), None>> : mv \in MonthValues}
        \cup {<<None, None>>}
        \cup {<<Some(mv), Some(<<"0", "2", "/", "2", "0", "2", "4">>)>> :
                mv \in {<<"1">>, <<"1", "3">>}}

\* Invocation times: a mid-month morning, and half an hour into a new year
Todays == {DateUTC(2024, 2, 15, 36000000), DateUTC(2025, 0, 1, 1800000)}

\* Zones: UTC-5, UTC and UTC+1
Zones == {-18000000, 0, 3600000}

ExecTrackingStarts == {DateUTC(2024, 0, 1, 0), DateUTC(2024, 1, 7, 0)}

\* How long before the invocation the process was started, in days
BuildAges == {0, 20}

ExInit ==
    /\ TRACKING_START_DATE \in ExecTrackingStarts
    /\ today \in Todays
    /\ tz \in Zones
    /\ \/ /\ \E o \in OptionPairs : requestedMonth = o[1] /\ customDate = o[2]
          /\ builtAt = today
          /\ monthChoice = 0
       \/ /\ \E age \in BuildAges : builtAt = Ts(today.d - age, today.ms)
          /\ monthChoice \in 1..4
          /\ requestedMonth = Some(monthChoices(builtAt, tz)[monthChoice])
          /\ customDate = None
    /\ pc = "deferReply" /\ currentYear = 0 /\ currentMonth = 0
    /\ memberList = <<>> /\ menuPage = 0 /\ reply = NoReply
    /\ followUps = <<>> /\ fetches = <<>> /\ waitedMs = 0 /\ elapsedMs = 0
    /\ waitEnd = "none" /\ selectedMemberId = <<>>
    /\ attendanceOutcome = "none" /\ deferred = FALSE
    /\ CalIdle /\ PgIdle /\ PsIdle /\ CcIdle

ExNext ==
    \/ DeferReplyOk
    \/ DeferReplyFails
    \/ ReadOptions
    \/ FetchMembers
    \/ ShowMenu
    \/ Tick
    \/ \E i \in Pickable : Select(i)
    \/ Timeout
    \/ WaitFails
    \/ AttendanceArrives
    \/ AttendanceFails

SpecExecute == ExInit /\ [][ExNext]_vars

-----------------------------------------------------------------------------
(* Properties of execute                                                   *)

ValidationMessages == {MsgInvalidFormat, MsgBeforeTracking, MsgFuture}

\* The options have been read and validated
OptionsRead == deferred /\ pc # "options"

RejectedBeforeFetch ==
    /\ pc = "done"
    /\ reply.content \in ValidationMessages
    /\ fetches = <<>>

\* C4: a request whose month option is 13, or whose custom_date is 13/2024,
\* is rejected with a validation message before any fetch is started.
C4_Month13RejectedBeforeFetch ==
    (/\ OptionsRead
     /\ \/ customDate = Some(<<"1", "3", "/", "2", "0", "2", "4">>)
        \/ (~customDate.present /\ requestedMonth = Some(<<"1", "3">>)))
        => RejectedBeforeFetch

\* MM/YYYY: two digits naming a month 01..12, a slash, four digits
WellFormed(str) ==
    /\ Len(str) = 7
    /\ str[3] = "/"
    /\ \A i \in {1, 2, 4, 5, 6, 7} : IsDigit(str[i])
    /\ 10 * DigitVal(str[1]) + DigitVal(str[2]) \in 1..12

MonthOf(str) == 10 * DigitVal(str[1]) + DigitVal(str[2])

YearOf(str) ==
    1000 * DigitVal(str[4]) + 100 * DigitVal(str[5])
        + 10 * DigitVal(str[6]) + DigitVal(str[7])

\* The start, in the process's zone, of the month a well-formed string names
MonthStart(str) == TsAdd(Ts(DaysFromCivil(YearOf(str), MonthOf(str), 1), 0), -tz)

InTrackedRange(str) ==
    /\ TsLE(TRACKING_START_DATE, MonthStart(str))
    /\ TsLE(MonthStart(str), today)

\* C5: a custom_date that is not a well-formed MM/YYYY, or lies before
\* TRACKING_START_DATE, or lies in the future, is rejected with a message
\* and nothing is fetched; only a well-formed date in range sets the viewed
\* year and month.
C5_CustomDateValidated ==
    (OptionsRead /\ customDate.present) =>
        IF WellFormed(customDate.str) /\ InTrackedRange(customDate.str)
        THEN /\ reply.content \notin ValidationMessages
             /\ currentYear = YearOf(customDate.str)
             /\ currentMonth = MonthOf(customDate.str) - 1
        ELSE RejectedBeforeFetch

\* C7: on timeout execute ends with "Selection timed out.", the menu removed,
\* no attendance fetch and no calendar; and only a timeout is reported so.
C7_TimedOutMeansTimeout ==
    /\ waitEnd = "time" =>
          /\ pc = "done"
          /\ reply = [content |-> MsgTimedOut, components |-> <<>>]
          /\ \A i \in 1..Len(fetches) : fetches[i] # AttendanceFetch
          /\ followUps = <<>>
    /\ reply.content = MsgTimedOut => waitEnd = "time"

\* C8: when getPlayerAttendance fails after a member was selected, no
\* calendar is posted, the reply becomes the retry-later message with the
\* menu removed, and execute ends there.
C8_AttendanceFailureHandled ==
    attendanceOutcome = "failed" =>
        /\ selectedMemberId # <<>>
        /\ followUps = <<>>
        /\ pc = "done"
        /\ reply = [content |-> MsgRetryLater, components |-> <<>>]

\* getPlayerAttendance failed for a member picked on the second page
C8_Witness ==
    /\ attendanceOutcome = "failed"
    /\ pc = "done"
    /\ menuPage = 1
    /\ selectedMemberId # <<>>
    /\ fetches # <<>> /\ fetches[Len(fetches)] = AttendanceFetch
    /\ reply.content = MsgRetryLater

-----------------------------------------------------------------------------
(* One call of a PerscomService method                                     *)

MaxLastPage == 7

MaxUsers == 3

\* meta.last_page: a finite page count, or absent (undefined compares false
\* with every page)
Servers ==
    [last_page : {Num(n) : n \in 0..MaxLastPage} \cup {NaN}, pattern : 0..3]

User(k) == [user_id |-> k, first_name |-> k]

UserLists == SeqsUpTo({User(1), User(2)}, MaxUsers)

\* A fetch resolves with ok, resolves with a status that is not ok, rejects,
\* or resolves with ok and a body that does not parse
FetchResults == {"ok", "notOk", "throws", "badBody"}

\* A DELETE besides: an error response whose text cannot be read
DeleteResults == FetchResults \cup {"notOkNoText"}

CacheResults == {"200", "other2xx", "throws"}

MaxSubmissions == 3

\* A Form1Submission as getAllForm1Data returns it
Form1Submission(k) == [form_id |-> 10 * k + 1, user_id |-> 100 + k]

SubmissionLists ==
    SeqsUpTo({Form1Submission(4), Form1Submission(5)}, MaxSubmissions)

StatusIds == {7}

\* A status request rejects, or is answered with a body without data, with
\* data null, or with a list of statuses
StatusResults == {"throws", "badBody", "noData", "empty", "other", "match"}

PsInit ==
    /\ psOp \in {"getAllForm1Data", "deleteUsers", "clearCache",
                 "getSubmissionStatus"}
    /\ psPc = "start"
    /\ server \in (IF psOp = "getAllForm1Data" THEN Servers
                   ELSE {[last_page |-> Num(0), pattern |-> 0]})
    /\ users \in (IF psOp = "deleteUsers" THEN UserLists ELSE {<<>>})
    /\ userIndex = 1 /\ pageNo = 0 /\ lastPage = Num(0)
    /\ allForm1Submissions = <<>> /\ requests = <<>> /\ inFlight = 0
    /\ outcomes = <<>>
    /\ submissions \in (IF psOp = "getSubmissionStatus" THEN SubmissionLists
                        ELSE {<<>>})
    /\ statusId \in (IF psOp = "getSubmissionStatus" THEN StatusIds ELSE {0})
    /\ submissionIndex = 1 /\ activeUsers = <<>>
    /\ TRACKING_START_DATE = DateUTC(2024, 0, 1, 0)
    /\ CalIdle /\ PgIdle /\ ExIdle /\ CcIdle

PsNext ==
    \/ Form1Start
    \/ \E outcome \in FetchResults : Form1Meta(outcome)
    \/ \E outcome \in FetchResults : Form1Page(outcome)
    \/ DeleteStart
    \/ \E outcome \in DeleteResults : DeleteAnswered(outcome)
    \/ CacheStart
    \/ \E outcome \in CacheResults : CacheAnswered(outcome)
    \/ StatusStart
    \/ \E outcome \in StatusResults : StatusAnswered(outcome)

\* Every request sent is answered or fails in the end, and the method then
\* runs on
SpecPerscom == PsInit /\ [][PsNext]_vars /\ WF_vars(PsNext)

\* C9: deleteUsers sends one DELETE per user, in list order, whatever the
\* outcome of the DELETEs before it; and clearCache returns once its request
\* is answered, whatever the answer.
C9_DeleteEveryUserInOrder ==
    /\ psOp = "deleteUsers" =>
          /\ Len(requests) <= Len(users)
          /\ \A i \in 1..Len(requests) :
                requests[i] = [method |-> "DELETE", path |-> "users",
                               arg |-> users[i].user_id]
          /\ (psPc # "start" /\ Len(outcomes) < Len(users)) =>
                Len(requests) = Len(outcomes) + 1
          /\ psPc = "done" => Len(requests) = Len(users)
    /\ psOp = "clearCache" =>
          /\ Len(requests) <= 1
          /\ outcomes # <<>> => psPc = "done"

\* Three users; the first DELETE is refused, the second throws, the third
\* is sent all the same and succeeds
C9_Witness ==
    /\ psOp = "deleteUsers"
    /\ psPc = "done"
    /\ Len(users) = 3
    /\ outcomes = <<"notOk", "throws", "ok">>
    /\ Len(requests) = 3

\* The requests getAllForm1Data has sent after the metadata request
PageRequests == SubSeq(requests, 2, Len(requests))

\* The pages whose request was answered with ok
RECURSIVE Form1Of(_, _)
Form1Of(srv, pages) ==
    IF pages = <<>> THEN <<>>
    ELSE LET data == SubmissionsOn(srv, Head(pages))
             ones == SelectSeq(data, LAMBDA x : x.form_id = 1)
         IN  [i \in 1..Len(ones) |-> [form_id |-> ones[i].id,
                                      user_id |-> ones[i].user_id]]
                \o Form1Of(srv, Tail(pages))

FetchedPages ==
    LET oks == {i \in 2..Len(outcomes) : outcomes[i] = "ok"}
    IN  [i \in 1..Cardinality(oks) |-> FIRST_PAGE + i - 1]

C10_Safe ==
    psOp = "getAllForm1Data" =>
        /\ inFlight \in {0, 1}
        /\ requests # <<>> => requests[1] = MetaRequest
        /\ Len(requests) >= 2 =>
              /\ outcomes # <<>> /\ outcomes[1] = "ok"
              /\ lastPage = server.last_page
        /\ \A i \in 1..Len(PageRequests) :
              /\ PageRequests[i] = PageRequest(FIRST_PAGE + i - 1)
              /\ ~server.last_page.nan
              /\ FIRST_PAGE + i - 1 <= server.last_page.n
        /\ psPc = "done" =>
              /\ inFlight = 0
              /\ allForm1Submissions = Form1Of(server, FetchedPages)
              /\ (server.last_page.nan \/ server.last_page.n < FIRST_PAGE) =>
                    (allForm1Submissions = <<>> /\ PageRequests = <<>>)
              /\ (\A i \in 1..Len(outcomes) : outcomes[i] = "ok") =>
                    (~server.last_page.nan /\ server.last_page.n >= FIRST_PAGE
                        => Len(PageRequests) = server.last_page.n - FIRST_PAGE + 1)

\* C10: getAllForm1Data reads last_page from the metadata request first,
\* then requests the pages one at a time in increasing order from the first
\* page offset up to last_page, never two at once and never one twice; it
\* ends for every last_page, and returns the form_id = 1 submissions of the
\* fetched pages in page order (none when last_page is below the offset).
C10_SequentialPagingTerminates ==
    /\ []C10_Safe
    /\ (psOp = "getAllForm1Data") ~> (psPc = "done")

\* All of pages 4..6 fetched, one after the other, and a form 1 submission
\* of each returned
C10_Witness ==
    /\ psOp = "getAllForm1Data"
    /\ psPc = "done"
    /\ server.last_page = Num(6)
    /\ Len(PageRequests) = 3
    /\ outcomes = <<"ok", "ok", "ok", "ok">>
    /\ Len(allForm1Submissions) >= 3

\* The submissions whose status request was answered with the status asked
\* for, in list order
RECURSIVE MatchedOf(_, _)
MatchedOf(subs, outs) ==
    IF subs = <<>> \/ outs = <<>> THEN <<>>
    ELSE (IF Head(outs) = "match" THEN <<Head(subs)>> ELSE <<>>)
            \o MatchedOf(Tail(subs), Tail(outs))

\* getSubmissionStatus asks once for each submission, in order, whatever the
\* answers before; the matches gathered are kept
StatusFailuresSkipped ==
    psOp = "getSubmissionStatus" =>
        /\ Len(requests) <= Len(submissions)
        /\ \A i \in 1..Len(requests) :
              requests[i] = [method |-> "GET", path |-> "submissions/statuses",
                             arg |-> submissions[i].form_id]
        /\ (psPc # "start" /\ Len(outcomes) < Len(submissions)) =>
              Len(requests) = Len(outcomes) + 1
        /\ psPc = "done" => Len(requests) = Len(submissions)
        /\ psPc # "start" => activeUsers = MatchedOf(submissions, outcomes)

\* The pages of getAllForm1Data whose request was answered with ok
OkPages ==
    LET asked == [i \in 1..Len(PageRequests) |-> PageRequests[i].arg]
    IN  SelectSeq(asked, LAMBDA pg :
            \E i \in 1..Len(PageRequests) :
                /\ PageRequests[i].arg = pg
                /\ i + 1 <= Len(outcomes)
                /\ outcomes[i + 1] = "ok")

\* Once last_page is known, getAllForm1Data asks for each page from the
\* offset to last_page once, a failed page included, and returns the form 1
\* submissions of the pages that were answered
PageFailuresSkipped ==
    (/\ psOp = "getAllForm1Data"
     /\ psPc = "done"
     /\ outcomes # <<>> /\ outcomes[1] = "ok"
     /\ ~server.last_page.nan) =>
        /\ \A i \in 1..Len(PageRequests) :
              PageRequests[i] = PageRequest(FIRST_PAGE + i - 1)
        /\ Len(PageRequests) =
              (IF server.last_page.n >= FIRST_PAGE
               THEN server.last_page.n - FIRST_PAGE + 1 ELSE 0)
        /\ allForm1Submissions = Form1Of(server, OkPages)

\* C11: a failed PERSCOM request in getSubmissionStatus or getAllForm1Data
\* is not retried, what was gathered before it is kept in the result, and
\* the method goes on with the next submission or the next page.
C11_FailuresSkipped ==
    /\ StatusFailuresSkipped
    /\ PageFailuresSkipped

-----------------------------------------------------------------------------
(* The calendar of every month of a span of years, without records         *)

MaxYearSpan == 12

\* The years the command has been in use and those ahead, and the century
\* years around them: 1900 and 2100 have no 29 February, 2000 has one
MonthYears == {1900, 2000, 2100} \cup (2016..(2016 + MaxYearSpan))

MonthsInit ==
    /\ year \in MonthYears
    /\ month \in 0..11
    /\ TRACKING_START_DATE = DateUTC(2024, 0, 1, 0)
    /\ calNow = DateUTC(2026, 0, 15, 36000000)
    /\ attendanceData = <<>>
    /\ calendar = NoCalendar
    /\ PgIdle /\ ExIdle /\ PsIdle /\ CcIdle

MonthsNext == Render

SpecMonths == MonthsInit /\ [][MonthsNext]_vars

\* A leap year of the Gregorian calendar
IsLeapYear(y) == (y % 4 = 0 /\ y % 100 # 0) \/ y % 400 = 0

\* The number of days of month m (0-indexed) of year y
DaysInMonth(y, m) ==
    IF m = 1 THEN (IF IsLeapYear(y) THEN 29 ELSE 28)
    ELSE IF m \in {3, 5, 8, 10} THEN 30
    ELSE 31

\* C12: for every year and month 0..11 the lastDay generateCalendarEmbed
\* uses is the number of days of that month: 29 for February of a leap
\* year, 28 otherwise, and 31 for December.
C12_LastDayIsDaysInMonth ==
    Rendered =>
        /\ calendar.lastDay = DaysInMonth(year, month)
        /\ \A m \in 0..11 : lastDayOf(year, m) = DaysInMonth(year, m)

\* February of a leap year rendered with 29 days
C12_Witness ==
    /\ Rendered
    /\ year = 2024 /\ month = 1
    /\ calendar.lastDay = 29
    /\ Len(calendar.rows) = 5

\* The weekday (0 = Sunday .. 6 = Saturday) of day d of month m (0-indexed)
\* of year y, by Sakamoto's rule
Weekday(y, m, d) ==
    LET t  == <<0, 3, 2, 5, 0, 3, 5, 1, 4, 6, 2, 4>>
        yy == IF m < 2 THEN y - 1 ELSE y
    IN  (yy + yy \div 4 - yy \div 100 + yy \div 400 + t[m + 1] + d) % 7

\* The places <<row, column>> of the grid that hold day d
PlacesOf(d) ==
    {rc \in (1..Len(calendar.rows)) \X (0..6) :
        /\ calendar.rows[rc[1]][rc[2]].colour # "blank"
        /\ calendar.rows[rc[1]][rc[2]].content = d}

\* The days row r holds
DaysOfRow(r) ==
    {calendar.rows[r][c].content : c \in {k \in 0..6 :
        calendar.rows[r][k].colour # "blank"}}

\* The Sunday-to-Saturday weeks the viewed month touches
WeeksTouched ==
    (Weekday(year, month, 1) + DaysInMonth(year, month) + 6) \div 7

\* C13: in the grid every day 1..lastDay stands exactly once, in the column
\* of its UTC weekday; days increase along a row and from row to row; a row
\* ends with a Saturday or with the last day and the next day starts the
\* next row; every other cell is blank; and there are as many rows as the
\* month touches Sunday-to-Saturday weeks (4, 5 or 6), none of them empty.
C13_GridLayout ==
    Rendered =>
        /\ \A d \in 1..calendar.lastDay :
              /\ Cardinality(PlacesOf(d)) = 1
              /\ \A rc \in PlacesOf(d) : rc[2] = Weekday(year, month, d)
        /\ \A r \in 1..Len(calendar.rows), c \in 0..6 :
              LET cell == calendar.rows[r][c]
              IN  IF cell.colour = "blank" THEN cell = BlankCell
                  ELSE cell.content \in 1..calendar.lastDay
        /\ \A d \in 1..(calendar.lastDay - 1) :
              \A rc \in PlacesOf(d), rn \in PlacesOf(d + 1) :
                  IF rc[2] = 6 THEN rn[1] = rc[1] + 1 /\ rn[2] = 0
                  ELSE rn[1] = rc[1] /\ rn[2] = rc[2] + 1
        /\ \A r \in 1..Len(calendar.rows) : DaysOfRow(r) # {}
        /\ \A rc \in PlacesOf(1) : rc[1] = 1
        /\ \A rc \in PlacesOf(calendar.lastDay) : rc[1] = Len(calendar.rows)
        /\ Len(calendar.rows) = WeeksTouched
        /\ Len(calendar.rows) \in {4, 5, 6}

\* A February of 28 days that starts on a Sunday: four full rows
C13_Witness ==
    /\ Rendered
    /\ year = 2026 /\ month = 1
    /\ Len(calendar.rows) = 4
    /\ calendar.rows[1][0].content = 1
    /\ calendar.rows[4][6].content = 28

\* A month of 31 days that starts on a Saturday: six rows, the first with
\* one day and the last with two
SixRowMonth ==
    /\ Rendered
    /\ Len(calendar.rows) = 6
    /\ DaysOfRow(1) = {1}
    /\ DaysOfRow(6) = {30, 31}

-----------------------------------------------------------------------------
(* The month choices                                                       *)

\* The year and month (0-indexed) that lie k months before the month of the
\* invocation
MonthsAgo(k) ==
    LET local == CivilFromDays(TsAdd(today, tz).d)
        index == 12 * local.y + (local.m - 1) - k
    IN  [year |-> index \div 12, month |-> index % 12]

BuiltThisMonth ==
    LET built == CivilFromDays(TsAdd(builtAt, tz).d)
        local == CivilFromDays(TsAdd(today, tz).d)
    IN  built.y = local.y /\ built.m = local.m

ChoiceRendered(k) ==
    /\ currentYear = MonthsAgo(k).year
    /\ currentMonth = MonthsAgo(k).month
    /\ \A i \in 1..Len(followUps) :
          /\ followUps[i].year = MonthsAgo(k).year
          /\ followUps[i].month = MonthsAgo(k).month

\* C14: with the choice "current month", "last month", "two months ago" or
\* "three months ago", execute views the month that lies 0, 1, 2 or 3
\* months before the month of the invocation, across a year boundary too,
\* and also when the month has changed since the choices were built.
C14_ChoiceIsMonthsBeforeNow ==
    (OptionsRead /\ monthChoice \in 1..4) => ChoiceRendered(monthChoice - 1)

\* The same for invocations in the month the choices were built in
FreshChoiceIsMonthsBeforeNow ==
    (OptionsRead /\ monthChoice \in 1..4 /\ BuiltThisMonth) =>
        ChoiceRendered(monthChoice - 1)

\* A calendar posted for "three months ago" picked in January
FreshChoiceAcrossYears ==
    /\ monthChoice = 4 /\ BuiltThisMonth
    /\ followUps # <<>>
    /\ followUps[1].year = 2024 /\ followUps[1].month = 9
    /\ MonthsAgo(0) = [year |-> 2025, month |-> 0]

-----------------------------------------------------------------------------
(* Two invocations of execute waiting for a menu choice in one channel     *)

\* An invocation stands at the editReply that shows its menu ("editing"),
\* in awaitMessageComponent ("waiting"), or handleMemberSelection has
\* returned to it a member ("selected") or null ("timedOut")

MaxGuildMembers == 26

\* memberList of both invocations: the humans of the guild
GuildMemberList == [k \in 1..MaxGuildMembers |-> Member(k)]

\* setCustomId('member-select')
MenuCustomId == "member-select"

\* The menu invocation j shows: getMemberOptions(memberList, page)
MenuOf(j) == getMemberOptions(GuildMemberList, invocations[j].page)

\* filter: i.customId === 'member-select' && i.user.id === interaction.user.id
selectionFilter(e, inv) == e.customId = MenuCustomId /\ e.user = inv.user

\* interaction.channel.awaitMessageComponent collects a component
\* interaction of its channel that passes the filter, whatever message the
\* component is on
Collects(inv, e) == inv.state = "waiting" /\ selectionFilter(e, inv)

\* Lines 152-162: what handleMemberSelection does with the selection its
\* wait resolved with
Consume(inv, e) ==
    LET parts == split(e.value, "_")
        type  == parts[1]
        value == parts[2]
    IN  IF type = <<"p", "a", "g", "e">>
        THEN [inv EXCEPT !.page = parseInt(value).n,
                         !.state = "editing",
                         !.consumed = Append(@, e.menu)]
        ELSE [inv EXCEPT !.selection = value,
                         !.state = "selected",
                         !.consumed = Append(@, e.menu)]

\* Lines 131-150: the menu is shown and the wait starts
ShowMenuOf(j) ==
    /\ j \in DOMAIN invocations
    /\ invocations[j].state = "editing"
    /\ invocations' = [invocations EXCEPT ![j].state = "waiting"]
    /\ UNCHANGED <<TRACKING_START_DATE, calVars, pgVars, exVars, psVars, events>>

\* The user of invocation j picks option o of the menu j shows: Discord
\* delivers one component interaction, and every wait in the channel that
\* collects it resolves with it
SelectOn(j, o) ==
    /\ j \in DOMAIN invocations
    /\ invocations[j].state = "waiting"
    /\ o \in 1..Len(MenuOf(j))
    /\ LET e == [menu |-> j, customId |-> MenuCustomId,
                 user |-> invocations[j].user, value |-> MenuOf(j)[o].value]
       IN  /\ events' = Append(events, e)
           /\ invocations' =
                 [i \in DOMAIN invocations |->
                     IF Collects(invocations[i], e)
                     THEN Consume(invocations[i], e)
                     ELSE invocations[i]]
    /\ UNCHANGED <<TRACKING_START_DATE, calVars, pgVars, exVars, psVars>>

\* Lines 163-168: the 60 s of invocation j pass
TimeoutOf(j) ==
    /\ j \in DOMAIN invocations
    /\ invocations[j].state = "waiting"
    /\ invocations' = [invocations EXCEPT ![j].state = "timedOut"]
    /\ UNCHANGED <<TRACKING_START_DATE, calVars, pgVars, exVars, psVars, events>>

\* The options of a menu the model lets a user pick: the first, the last
\* member and the last option
PickableOn(j) ==
    {1, Len(MenuOf(j)) - 1, Len(MenuOf(j))} \cap (1..Len(MenuOf(j)))

\* Two invocations in one channel, by one user or by two
CcInit ==
    /\ \E other \in {1, 2} :
          invocations = [j \in 1..2 |->
              [user |-> IF j = 1 THEN 1 ELSE other, state |-> "editing",
               page |-> 0, selection |-> <<>>, consumed |-> <<>>]]
    /\ events = <<>>
    /\ TRACKING_START_DATE = DateUTC(2024, 0, 1, 0)
    /\ CalIdle /\ PgIdle /\ ExIdle /\ PsIdle

CcNext ==
    \/ \E j \in 1..2 : ShowMenuOf(j)
    \/ \E j \in 1..2 : \E o \in PickableOn(j) : SelectOn(j, o)
    \/ \E j \in 1..2 : TimeoutOf(j)

SpecConcurrent == CcInit /\ [][CcNext]_vars

SameUser == invocations[1].user = invocations[2].user

\* Every selection invocation i consumed was made on its own menu
OwnSelectionsOnly(i) ==
    \A k \in 1..Len(invocations[i].consumed) : invocations[i].consumed[k] = i

\* C15: when one user has two invocations waiting in one channel, a
\* selection made on the menu of one of them is consumed by that
\* invocation's wait only: it never resolves the wait of the other nor
\* changes its page or its selection.
C15_SelectionConsumedByItsInvocationOnly ==
    SameUser => \A i \in 1..2 : OwnSelectionsOnly(i)

\* The invocations of two different users do not consume each other's
\* selections
OtherUsersSelectionsIgnored ==
    ~SameUser => \A i \in 1..2 : OwnSelectionsOnly(i)

====
